---- MODULE Spec2Model ----
(***************************************************************************)
(* The matcher combinator layer of ast-grep (crates/core/src/matcher.rs)   *)
(* and the CLI error report (crates/cli/src/error.rs).                     *)
(*                                                                         *)
(* Three state machines share the variables below:                         *)
(*   Spec       a FindAllNodes search and a find_node query over one tree  *)
(*   FairSpec   Spec, with the caller advancing the search until it stops  *)
(*   SpecMatch  single calls of the five Matcher methods                   *)
(*   SpecErr    one Display::fmt of an ErrorFormat                         *)
(***************************************************************************)
EXTENDS Integers, Sequences, FiniteSets, TLC

\* Largest number of nodes in a parsed tree (target source or pattern snippet).
MaxNodes == 3
\* Deepest nesting of & and Box around a matcher.
MaxWrap == 2
\* Largest number of causes after the root error of an anyhow chain.
MaxCauses == 2

VARIABLES
  tree,      \* the parsed tree all Nodes refer to
  matcher,   \* the Matcher under test (FindAllNodes.matcher / the receiver)
  start,     \* the node given to FindAllNodes::new and to find_node
  dfs,       \* FindAllNodes.dfs: the candidates the Pre cursor has still to produce
  attempts,  \* history: every matcher.match_node(cand) call of the search, in order
  status,    \* "ready" | "exhausted" (next returned None) | "panicked" (next unwound)
  found,     \* result of the find_node(start) query, "unset" before it ran
  call,      \* SpecMatch: the last method call, its arguments and its result
  ctx,       \* SpecErr: ErrorFormat.context
  chain,     \* SpecErr: ErrorFormat.inner.chain(), outermost error first
  out        \* SpecErr: the lines written to the Formatter, "unset" before fmt

vars == <<tree, matcher, start, dfs, attempts, status, found, call, ctx, chain, out>>

(***************************************************************************)
(* Language and Node (external collaborators of matcher.rs).               *)
(* A toy Language with two kind ids; kind 0 is the anonymous (punctuation) *)
(* kind.  A leaf is a token whose text is its kind's spelling.             *)
(***************************************************************************)
Kinds == {0, 1}

is_named(k) == k > 0

\* Nodes are numbered 1..n, node 1 is the root, a parent precedes its children,
\* children are ordered by number.
Trees ==
  UNION { { [n |-> n, parent |-> p, kind |-> k] :
              p \in { q \in [1..n -> 0..(n-1)] :
                        /\ q[1] = 0
                        /\ \A i \in 2..n : q[i] >= 1 /\ q[i] < i },
              k \in [1..n -> Kinds] } : n \in 1..MaxNodes }

RECURSIVE SortedSeq(_)
SortedSeq(S) ==
  IF S = {} THEN <<>>
  ELSE LET x == CHOOSE y \in S : \A z \in S : y <= z
       IN <<x>> \o SortedSeq(S \ {x})

children(t, n) == SortedSeq({i \in 1..t.n : t.parent[i] = n})

\* Node::dfs(): the pre-order depth-first traversal starting at (and including) n.
RECURSIVE Node_dfs(_, _)
RECURSIVE dfs_forest(_, _)
Node_dfs(t, n) == <<n>> \o dfs_forest(t, children(t, n))
dfs_forest(t, cs) ==
  IF cs = <<>> THEN <<>> ELSE Node_dfs(t, Head(cs)) \o dfs_forest(t, Tail(cs))

SeqToSet(s) == {s[i] : i \in 1..Len(s)}

\* The nodes below n (n excluded).
ProperDescendants(t, n) == SeqToSet(Node_dfs(t, n)) \ {n}

\* Position of x in sequence s (0 when absent).
IndexOf(s, x) == IF \E i \in 1..Len(s) : s[i] = x
                 THEN CHOOSE i \in 1..Len(s) : s[i] = x ELSE 0

\* Number of tokens (leaves) spanned by n.
RECURSIVE token_count(_, _)
RECURSIVE token_sum(_, _)
token_count(t, n) ==
  IF children(t, n) = <<>> THEN 1 ELSE token_sum(t, children(t, n))
token_sum(t, cs) ==
  IF cs = <<>> THEN 0 ELSE token_count(t, Head(cs)) + token_sum(t, Tail(cs))

\* Structural/textual equality of two subtrees.
RECURSIVE node_eq(_, _, _)
node_eq(t, a, b) ==
  LET ca == children(t, a)
      cb == children(t, b)
  IN /\ t.kind[a] = t.kind[b]
     /\ Len(ca) = Len(cb)
     /\ \A i \in 1..Len(ca) : node_eq(t, ca[i], cb[i])

(***************************************************************************)
(* MetaVarEnv: capture name -> bound node.  One name, 1.                    *)
(***************************************************************************)
MetaVarNames == {1}

MetaVarEnv_new == <<>>

\* insert: a fresh name binds; a bound name must equal the existing binding.
MetaVarEnv_insert(t, env, name, node) ==
  IF name \in DOMAIN env
  THEN [ok |-> node_eq(t, env[name], node), env |-> env]
  ELSE [ok |-> TRUE, env |-> (name :> node) @@ env]

\* Every environment a caller can hold over tree t with names from N.
EnvsOver(t, N) == UNION { [D -> 1..t.n] : D \in SUBSET N }

(***************************************************************************)
(* Pattern (crates/core/src/matcher/pattern.rs, not part of the sources    *)
(* at hand): modelled from the specification, sections 4.1, 4.5 and 7.     *)
(*                                                                         *)
(* A snippet is the text of a pattern, given by what the Language's parser *)
(* makes of it: the sequence of its top-level nodes, each with a kind and  *)
(* leaf children.  A leaf written with the sigil ($A) is the integer -1.   *)
(***************************************************************************)
SlotCounts == {0, 1, 2}

Leaves == Kinds \cup {-v : v \in MetaVarNames}

SeqsOf(S, n) == [1..n -> S]

Snippets ==
  {<<>>}                                                   \* "": no top-level node
    \cup {<<[kind |-> -v, children |-> <<>>]>> : v \in MetaVarNames}  \* "$A" alone
    \cup {<<[kind |-> k, children |-> c]>> :
            k \in Kinds, c \in UNION {SeqsOf(Leaves, n) : n \in SlotCounts}}

is_meta_var(x) == x < 0

\* Pattern::try_new: the skeleton, or the PatternError raised at construction.
Pattern_try_new(src) ==
  IF Len(src) = 0 THEN [ok |-> FALSE, err |-> "NoContent"]
  ELSE IF is_meta_var(src[1].kind) THEN [ok |-> FALSE, err |-> "NoPositiveTerm"]
  ELSE [ok |-> TRUE,
        kind |-> src[1].kind,
        slots |-> [i \in 1..Len(src[1].children) |->
                     IF is_meta_var(src[1].children[i])
                     THEN [capture |-> TRUE, id |-> -(src[1].children[i])]
                     ELSE [capture |-> FALSE, id |-> src[1].children[i]]]]

\* Unify slots i.. of the skeleton with the children cs of the candidate.
RECURSIVE match_slots(_, _, _, _, _)
match_slots(p, t, cs, i, env) ==
  IF i > Len(p.slots) THEN [ok |-> TRUE, env |-> env]
  ELSE IF p.slots[i].capture
  THEN LET r == MetaVarEnv_insert(t, env, p.slots[i].id, cs[i])
       IN IF r.ok THEN match_slots(p, t, cs, i + 1, r.env)
          ELSE [ok |-> FALSE, env |-> r.env]
  ELSE IF t.kind[cs[i]] = p.slots[i].id /\ children(t, cs[i]) = <<>>
  THEN match_slots(p, t, cs, i + 1, env)
  ELSE [ok |-> FALSE, env |-> env]

\* The candidate has the skeleton's kind, a child for every slot, and nothing but
\* anonymous tokens after them.
shape_fits(p, t, node) ==
  LET cs == children(t, node)
  IN /\ t.kind[node] = p.kind
     /\ Len(cs) >= Len(p.slots)
     /\ \A j \in (Len(p.slots) + 1)..Len(cs) :
          ~is_named(t.kind[cs[j]]) /\ children(t, cs[j]) = <<>>

\* Pattern::match_node_with_env: the bindings are kept only when the whole
\* skeleton unified (section 4.1: roll back on failure).
Pattern_match_node_with_env(p, t, node, env) ==
  IF ~shape_fits(p, t, node) THEN [status |-> "None", node |-> 0, env |-> env]
  ELSE LET r == match_slots(p, t, children(t, node), 1, env)
       IN IF r.ok THEN [status |-> "Some", node |-> node, env |-> r.env]
          ELSE [status |-> "None", node |-> 0, env |-> env]

\* Pattern::get_match_len: tokens of the match, trailing anonymous children excluded.
Pattern_get_match_len(p, t, node) ==
  IF Pattern_match_node_with_env(p, t, node, MetaVarEnv_new).status = "Some"
  THEN [status |-> "Some",
        len |-> token_count(t, node) - (Len(children(t, node)) - Len(p.slots))]
  ELSE [status |-> "None", len |-> 0]

\* KindMatcher (kind.rs, not at hand; section 4.3): one integer comparison.
KindMatcher_match_node_with_env(k, t, node, env) ==
  IF t.kind[node] = k THEN [status |-> "Some", node |-> node, env |-> env]
  ELSE [status |-> "None", node |-> 0, env |-> env]

KindMatcher_potential_kinds(k) == [status |-> "Some", kinds |-> {k}]

(***************************************************************************)
(* matcher.rs: the Matcher trait, its adapters and combinators.            *)
(***************************************************************************)
MatchAll == [tag |-> "MatchAll"]
MatchNone == [tag |-> "MatchNone"]
KindMatcher(k) == [tag |-> "Kind", kind |-> k]
Str(src) == [tag |-> "Str", src |-> src]
Ref(m) == [tag |-> "Ref", inner |-> m]
Box(m) == [tag |-> "Box", inner |-> m]

ConcreteMatchers ==
  {MatchAll, MatchNone} \cup {KindMatcher(k) : k \in Kinds} \cup {Str(s) : s \in Snippets}

\* Any Matcher can be borrowed (&T) or boxed (Box<dyn Matcher>), wrappers included:
\* Box::new("...") boxes a &str.
RECURSIVE Wrapped(_)
Wrapped(depth) ==
  IF depth = 0 THEN ConcreteMatchers
  ELSE LET W == Wrapped(depth - 1)
       IN W \cup {Ref(m) : m \in W} \cup {Box(m) : m \in W}

Matchers == Wrapped(MaxWrap)

is_wrapper(m) == m.tag \in {"Ref", "Box"}

RECURSIVE wrap_depth(_)
wrap_depth(m) == IF is_wrapper(m) THEN 1 + wrap_depth(m.inner) ELSE 0

\* Call depth granted to a method call on m; a call that needs more overflows the stack.
stack_for(m) == wrap_depth(m) + 1

\* &self of a method call, and the * operator.
Borrow(m) == [tag |-> "Borrow", inner |-> m]
Deref(p) == p.inner

\* impl Matcher for &T: (**self)
Ref_callee(m) == Deref(Deref(Borrow(m)))

\* A single deref of &Box gives the box back: the call re-enters the wrapper.
Box_callee_single_deref(m) == Deref(Borrow(m))

\* impl Matcher for Box<dyn Matcher<L>>: (**self)
Box_callee(m) == Deref(Deref(Borrow(m)))

callee(m) == IF m.tag = "Ref" THEN Ref_callee(m) ELSE Box_callee(m)

overflow == [status |-> "overflow", hops |-> 0]

\* MatchAll::match_node_with_env
MatchAll_match_node_with_env(node, env) ==
  [status |-> "Some", node |-> node, env |-> env]

\* MatchNone::match_node_with_env
MatchNone_match_node_with_env(node, env) ==
  [status |-> "None", node |-> 0, env |-> env]

\* The text matcher handing back whatever the failed attempt had bound.
str_match_node_with_env_keeps_bindings(src, t, node, env) ==
  LET pattern == Pattern_try_new(src)
  IN IF ~pattern.ok THEN [status |-> "panic", node |-> 0, env |-> env]
     ELSE IF ~shape_fits(pattern, t, node) THEN [status |-> "None", node |-> 0, env |-> env]
     ELSE LET r == match_slots(pattern, t, children(t, node), 1, env)
          IN IF r.ok THEN [status |-> "Some", node |-> node, env |-> r.env]
             ELSE [status |-> "None", node |-> 0, env |-> r.env]

\* impl Matcher for str :: match_node_with_env.  Pattern::new has no error to
\* return: a construction failure unwinds out of the match attempt.
str_match_node_with_env(src, t, node, env) ==
  LET pattern == Pattern_try_new(src)
  IN IF ~pattern.ok THEN [status |-> "panic", node |-> 0, env |-> env]
     ELSE Pattern_match_node_with_env(pattern, t, node, env)

\* impl Matcher for str :: get_match_len
str_get_match_len(src, t, node) ==
  LET pattern == Pattern_try_new(src)
  IN IF ~pattern.ok THEN [status |-> "panic", len |-> 0]
     ELSE Pattern_get_match_len(pattern, t, node)

\* Matcher::match_node_with_env, dispatched on the receiver.  The result carries
\* the caller's environment after the call and the number of delegations made.
RECURSIVE match_node_with_env(_, _, _, _, _)
match_node_with_env(m, t, node, env, stack) ==
  IF stack = 0 THEN overflow @@ [node |-> 0, env |-> env]
  ELSE IF is_wrapper(m)
  THEN LET r == match_node_with_env(callee(m), t, node, env, stack - 1)
       IN [r EXCEPT !.hops = @ + 1]
  ELSE [hops |-> 0] @@
       CASE m.tag = "MatchAll" -> MatchAll_match_node_with_env(node, env)
         [] m.tag = "MatchNone" -> MatchNone_match_node_with_env(node, env)
         [] m.tag = "Kind" -> KindMatcher_match_node_with_env(m.kind, t, node, env)
         [] m.tag = "Str" -> str_match_node_with_env(m.src, t, node, env)

no_kinds == [status |-> "None", kinds |-> {}]

\* MatchAll given MatchNone's answer.
MatchAll_potential_kinds_empty == [status |-> "Some", kinds |-> {}]

\* MatchAll::potential_kinds
MatchAll_potential_kinds == no_kinds

\* MatchNone::potential_kinds
MatchNone_potential_kinds == [status |-> "Some", kinds |-> {}]

\* Matcher::potential_kinds (default: None)
RECURSIVE potential_kinds(_, _)
potential_kinds(m, stack) ==
  IF stack = 0 THEN overflow @@ [kinds |-> {}]
  ELSE IF is_wrapper(m)
  THEN LET r == potential_kinds(callee(m), stack - 1)
       IN [r EXCEPT !.hops = @ + 1]
  ELSE [hops |-> 0] @@
       CASE m.tag = "MatchAll" -> MatchAll_potential_kinds
         [] m.tag = "MatchNone" -> MatchNone_potential_kinds
         [] m.tag = "Kind" -> KindMatcher_potential_kinds(m.kind)
         [] m.tag = "Str" -> no_kinds

\* Matcher::get_match_len (default: None)
RECURSIVE get_match_len(_, _, _, _)
get_match_len(m, t, node, stack) ==
  IF stack = 0 THEN overflow @@ [len |-> 0]
  ELSE IF is_wrapper(m)
  THEN LET r == get_match_len(callee(m), t, node, stack - 1)
       IN [r EXCEPT !.hops = @ + 1]
  ELSE [hops |-> 0] @@
       CASE m.tag = "Str" -> str_get_match_len(m.src, t, node)
         [] OTHER -> [status |-> "None", len |-> 0]

no_match == [status |-> "None", node |-> 0, env |-> MetaVarEnv_new]

\* match_node starting from an environment that already binds the capture.
default_match_node_stale_env(m, t, node, stack) ==
  LET r == match_node_with_env(m, t, node, (1 :> 1), stack)
  IN IF r.status = "Some" THEN r
     ELSE [status |-> r.status, node |-> 0, env |-> MetaVarEnv_new, hops |-> r.hops]

\* Matcher::match_node, the trait's default body: a fresh MetaVarEnv per call.
default_match_node(m, t, node, stack) ==
  LET r == match_node_with_env(m, t, node, MetaVarEnv_new, stack)
  IN IF r.status = "Some" THEN r
     ELSE [status |-> r.status, node |-> 0, env |-> MetaVarEnv_new, hops |-> r.hops]

\* Matcher::match_node, dispatched on the receiver.
RECURSIVE match_node(_, _, _, _)
match_node(m, t, node, stack) ==
  IF stack = 0 THEN overflow @@ [node |-> 0, env |-> MetaVarEnv_new]
  ELSE IF is_wrapper(m)
  THEN LET r == match_node(callee(m), t, node, stack - 1)
       IN [r EXCEPT !.hops = @ + 1]
  ELSE default_match_node(m, t, node, stack)

\* Matcher::find_node, the trait's default body: for n in node.dfs().
RECURSIVE find_loop(_, _, _, _)
find_loop(m, t, cands, stack) ==
  IF cands = <<>> THEN no_match @@ [hops |-> 0]
  ELSE LET ret == match_node(m, t, Head(cands), stack)
       IN IF ret.status = "None" THEN find_loop(m, t, Tail(cands), stack)
          ELSE ret

default_find_node(m, t, node, stack) == find_loop(m, t, Node_dfs(t, node), stack)

\* Matcher::find_node, dispatched on the receiver.
RECURSIVE find_node(_, _, _, _)
find_node(m, t, node, stack) ==
  IF stack = 0 THEN overflow @@ [node |-> 0, env |-> MetaVarEnv_new]
  ELSE IF is_wrapper(m)
  THEN LET r == find_node(callee(m), t, node, stack - 1)
       IN [r EXCEPT !.hops = @ + 1]
  ELSE default_find_node(m, t, node, stack)

(***************************************************************************)
(* FindAllNodes (matcher.rs 135-161) and the find_node query.              *)
(***************************************************************************)
unset == [status |-> "unset"]
no_call == [method |-> "none"]

\* FindAllNodes::next: for cand in self.dfs.by_ref() { match_node(cand) ... }.
\* Returns the value of the call, the cursor left behind and the attempts made.
RECURSIVE next_loop(_, _, _, _)
next_loop(m, t, cands, log) ==
  IF cands = <<>> THEN [ret |-> no_match @@ [hops |-> 0], dfs |-> cands, log |-> log]
  ELSE LET cand == Head(cands)
           matched == match_node(m, t, cand, stack_for(m))
           log2 == Append(log, [cand |-> cand, ret |-> matched])
       IN IF matched.status = "None" THEN next_loop(m, t, Tail(cands), log2)
          ELSE [ret |-> matched, dfs |-> Tail(cands), log |-> log2]

\* State a search leaves the three shared parts of the other machines in.
IdleMatch == call = no_call
IdleErr == ctx = "ReadConfiguration" /\ chain = <<>> /\ out = unset
IdleSearch == start = 1 /\ dfs = <<>> /\ attempts = <<>> /\ status = "ready" /\ found = unset

\* FindAllNodes::new(matcher, node): dfs = node.dfs().
Init ==
  /\ tree \in Trees
  /\ matcher \in Matchers
  /\ start \in 1..tree.n
  /\ dfs = Node_dfs(tree, start)
  /\ attempts = <<>>
  /\ status = "ready"
  /\ found = unset
  /\ IdleMatch
  /\ IdleErr

FindAllNodes_next ==
  /\ status \in {"ready", "exhausted"}
  /\ LET r == next_loop(matcher, tree, dfs, <<>>)
     IN /\ dfs' = r.dfs
        /\ attempts' = attempts \o r.log
        /\ status' = CASE r.ret.status = "Some" -> "ready"
                       [] r.ret.status = "None" -> "exhausted"
                       [] OTHER -> "panicked"
  /\ UNCHANGED <<tree, matcher, start, found, call, ctx, chain, out>>

Matcher_find_node ==
  /\ found = unset
  /\ found' = find_node(matcher, tree, start, stack_for(matcher))
  /\ UNCHANGED <<tree, matcher, start, dfs, attempts, status, call, ctx, chain, out>>

Next == FindAllNodes_next \/ Matcher_find_node

Spec == Init /\ [][Next]_vars

\* The caller keeps advancing the iterator for as long as it can be advanced.
FairSpec == Init /\ [][Next]_vars /\ WF_vars(FindAllNodes_next)

(***************************************************************************)
(* Single calls of the Matcher methods on one receiver.                    *)
(***************************************************************************)
InitMatch ==
  /\ tree \in Trees
  /\ matcher \in Matchers
  /\ call = no_call
  /\ IdleSearch
  /\ IdleErr

Call_match_node_with_env ==
  \E node \in 1..tree.n, env \in EnvsOver(tree, MetaVarNames) :
    call' = [method |-> "match_node_with_env", node |-> node, env |-> env,
             res |-> match_node_with_env(matcher, tree, node, env, stack_for(matcher))]

Call_potential_kinds ==
  call' = [method |-> "potential_kinds", node |-> 0, env |-> MetaVarEnv_new,
           res |-> potential_kinds(matcher, stack_for(matcher))]

Call_get_match_len ==
  \E node \in 1..tree.n :
    call' = [method |-> "get_match_len", node |-> node, env |-> MetaVarEnv_new,
             res |-> get_match_len(matcher, tree, node, stack_for(matcher))]

Call_match_node ==
  \E node \in 1..tree.n :
    call' = [method |-> "match_node", node |-> node, env |-> MetaVarEnv_new,
             res |-> match_node(matcher, tree, node, stack_for(matcher))]

Call_find_node ==
  \E node \in 1..tree.n :
    call' = [method |-> "find_node", node |-> node, env |-> MetaVarEnv_new,
             res |-> find_node(matcher, tree, node, stack_for(matcher))]

\* Matchers are stateless across calls: one call per behaviour shows them all.
NextMatch ==
  /\ call = no_call
  /\ \/ Call_match_node_with_env
     \/ Call_potential_kinds
     \/ Call_get_match_len
     \/ Call_match_node
     \/ Call_find_node
  /\ UNCHANGED <<tree, matcher, start, dfs, attempts, status, found, ctx, chain, out>>

SpecMatch == InitMatch /\ [][NextMatch]_vars

(***************************************************************************)
(* error.rs: ErrorContext, ErrorMessage, ErrorFormat.                      *)
(***************************************************************************)
CONFIG_GUIDE == "/guide/rule-config.html"
PATTERN_GUIDE == "/guide/pattern-syntax.html"
CLI_USAGE == "/reference/cli.html"
TEST_GUIDE == "/guide/test-rule.html"
EDITOR_INTEGRATION == "/guide/editor-integration.html"
PLAYGROUND == "/playground.html"
NoLink == ""

ErrorContexts ==
  {"ReadConfiguration", "ParseConfiguration", "WalkRuleDir", "ReadRule", "ParseRule",
   "ParseTest", "GlobPattern", "ParsePattern", "DiagnosticError", "StartLanguageServer",
   "OpenEditor", "WriteFile", "TestFail"}

\* ErrorMessage::from_context: title and link (the description is one fixed line).
ErrorMessage_from_context(c) ==
  CASE c = "ReadConfiguration" -> [title |-> "Cannot read configuration.", link |-> CONFIG_GUIDE]
    [] c = "ParseConfiguration" -> [title |-> "Cannot parse configuration", link |-> CONFIG_GUIDE]
    [] c = "WalkRuleDir" -> [title |-> "Cannot read rule directory", link |-> NoLink]
    [] c = "ReadRule" -> [title |-> "Cannot read rule", link |-> CONFIG_GUIDE]
    [] c = "ParseRule" -> [title |-> "Cannot parse rule", link |-> CONFIG_GUIDE]
    [] c = "GlobPattern" -> [title |-> "Cannot parse glob pattern in config", link |-> CONFIG_GUIDE]
    [] c = "ParseTest" -> [title |-> "Cannot parse test case", link |-> TEST_GUIDE]
    [] c = "DiagnosticError" -> [title |-> "error(s) found in code.", link |-> NoLink]
    [] c = "ParsePattern" -> [title |-> "Cannot parse query as a valid pattern", link |-> PATTERN_GUIDE]
    [] c = "StartLanguageServer" -> [title |-> "Cannot start language server.", link |-> EDITOR_INTEGRATION]
    [] c = "OpenEditor" -> [title |-> "Cannot open file in editor.", link |-> CLI_USAGE]
    [] c = "WriteFile" -> [title |-> "Cannot rewrite file", link |-> NoLink]
    [] c = "TestFail" -> [title |-> "test failed", link |-> PLAYGROUND]

\* The Display text of an error of the chain: its lines.  One message of a
\* single line ("test error") and one of two.
Messages == {<<"test error">>, <<"first line", "second line">>}

Chains == UNION {SeqsOf(Messages, n) : n \in 1..(MaxCauses + 1)}

line(tag, err, text) == [tag |-> tag, err |-> err, text |-> text]

\* The chain without the skip: the root is listed with its causes.
causes_no_skip(c) == [i \in 1..Len(c) |-> i]

\* self.inner.chain().skip(1): positions of the errors after the root.
causes_of(c) == [i \in 1..(Len(c) - 1) |-> i + 1]

\* writeln!(f, "{prefix} {err}"): the message follows the prefix as it is, so each
\* line break in it starts another line of the report.
write_cause(c, i) ==
  [k \in 1..Len(c[i]) |-> line(IF k = 1 THEN "cause" ELSE "continued", i, c[i][k])]

RECURSIVE write_causes(_, _)
write_causes(c, idx) ==
  IF idx = <<>> THEN <<>> ELSE write_cause(c, Head(idx)) \o write_causes(c, Tail(idx))

\* impl Display for ErrorFormat :: fmt
ErrorFormat_fmt(context, c) ==
  LET msg == ErrorMessage_from_context(context)
      head == <<line("Error:", 0, msg.title), line("Help:", 0, "description")>>
                \o (IF msg.link # NoLink THEN <<line("See also:", 0, msg.link)>> ELSE <<>>)
      causes == causes_of(c)
  IN IF causes = <<>> THEN head
     ELSE head \o <<line("", 0, ""), line("Caused by", 0, "")>> \o write_causes(c, causes)

InitErr ==
  /\ ctx \in ErrorContexts
  /\ chain \in Chains
  /\ out = unset
  /\ tree = [n |-> 1, parent |-> <<0>>, kind |-> <<0>>]
  /\ matcher = MatchAll
  /\ IdleSearch
  /\ IdleMatch

\* eprintln!("{error_fmt}")
Display_fmt ==
  /\ out = unset
  /\ out' = ErrorFormat_fmt(ctx, chain)
  /\ UNCHANGED <<tree, matcher, start, dfs, attempts, status, found, call, ctx, chain>>

NextErr == Display_fmt

SpecErr == InitErr /\ [][NextErr]_vars

(***************************************************************************)
(* Properties of the search (Spec, FairSpec).                              *)
(***************************************************************************)
fresh(m, t, node) == match_node_with_env(m, t, node, MetaVarEnv_new, stack_for(m))

\* The attempts that ended an advance with a value other than None.
Stops == {i \in 1..Len(attempts) : attempts[i].ret.status # "None"}

FirstAdvanceDone == Stops # {} \/ status = "exhausted"

\* What the first FindAllNodes::next call returned.
FirstAdvance ==
  IF Stops # {} THEN attempts[CHOOSE i \in Stops : \A j \in Stops : i <= j].ret
  ELSE no_match @@ [hops |-> 0]

same_match(a, b) == a.status = b.status /\ a.node = b.node /\ a.env = b.env

\* C1: once an advance has yielded a match for node n, no proper descendant of n
\* is offered to the matcher (or yielded) by a later advance.
C1_NoReDescent ==
  \A i, j \in 1..Len(attempts) :
    (i < j /\ attempts[i].ret.status = "Some")
      => attempts[j].cand \notin ProperDescendants(tree, attempts[i].ret.node)

\* C2: find_node(r) and the first advance of FindAllNodes::new(M, r) agree: both
\* return nothing, or both return a NodeMatch for the same node with the same
\* capture environment.
C2_FirstMatchAgrees ==
  (found # unset /\ FirstAdvanceDone)
    => \/ found.status = "None" /\ FirstAdvance.status = "None"
       \/ /\ found.status = "Some" /\ FirstAdvance.status = "Some"
          /\ found.node = FirstAdvance.node
          /\ found.env = FirstAdvance.env

\* Both calls always end the same way: when neither returns, both unwound out
\* of the same match attempt.
FindNodeMirrorsFirstAdvance ==
  (found # unset /\ FirstAdvanceDone) => same_match(found, FirstAdvance)

\* Bindings of env made while matching candidate cand: nodes of cand's subtree.
bound_within(t, env, cand) ==
  \A name \in DOMAIN env : env[name] \in SeqToSet(Node_dfs(t, cand))

\* C4: every candidate of find_node and of every advance is tested with a new,
\* empty MetaVarEnv: a returned NodeMatch carries exactly the bindings that
\* matching its candidate from the empty environment makes, all of them nodes
\* of that candidate.
C4_FreshEnvPerCandidate ==
  /\ \A i \in 1..Len(attempts) :
       LET a == attempts[i]
       IN /\ a.ret.status = fresh(matcher, tree, a.cand).status
          /\ a.ret.status = "Some" =>
               /\ a.ret.env = fresh(matcher, tree, a.cand).env
               /\ bound_within(tree, a.ret.env, a.cand)
  /\ (found # unset /\ found.status = "Some") =>
       /\ found.env = fresh(matcher, tree, found.node).env
       /\ bound_within(tree, found.env, found.node)

\* Two successive candidates both matched and bound the capture differently.
C4_Witness ==
  /\ Len(attempts) >= 2
  /\ attempts[1].ret.status = "Some" /\ attempts[2].ret.status = "Some"
  /\ DOMAIN attempts[1].ret.env # {} /\ DOMAIN attempts[2].ret.env # {}
  /\ attempts[1].ret.env # attempts[2].ret.env
  /\ found # unset /\ found.status = "Some"

\* The safety half of C5: candidates are consumed in traversal order, each at
\* most once, an advance stops at the first match, matches are yielded in
\* strictly increasing pre-order position, and None is returned only when the
\* traversal has ended.
SinglePass ==
  LET order == Node_dfs(tree, start)
  IN /\ Len(attempts) + Len(dfs) = Len(order)
     /\ \A i \in 1..Len(attempts) : attempts[i].cand = order[i]
     /\ \A i \in 1..Len(dfs) : dfs[i] = order[Len(attempts) + i]
     /\ \A i, j \in Stops :
          (i < j /\ attempts[i].ret.status = "Some" /\ attempts[j].ret.status = "Some")
            => IndexOf(order, attempts[i].ret.node) < IndexOf(order, attempts[j].ret.node)
     /\ status = "exhausted" => dfs = <<>>

\* C5: FindAllNodes is a single forward pass over the pre-order traversal, and on
\* a finite tree the search eventually returns nothing (exhausted) after at most
\* one matcher attempt per node: a search that has not returned nothing yet can
\* still be advanced towards it.
C5_SinglePassTerminates ==
  SinglePass /\ (status = "exhausted" \/ ENABLED FindAllNodes_next)

\* A matcher whose attempts never unwind.
never_panics(m, t) == \A n \in 1..t.n : fresh(m, t, n).status # "panic"

\* Under FairSpec: the pass is single and, unless an attempt unwinds, ends.
SinglePassTerminatesUnlessPanic ==
  []SinglePass /\ (never_panics(matcher, tree) => <>(status = "exhausted"))

matches(m, t, n) == fresh(m, t, n).status = "Some"

\* C10: find_node(r) returns nothing iff no node of the pre-order traversal of r
\* matches; otherwise it returns the NodeMatch of the earliest matching node,
\* carrying the node match_node_with_env returned.  With MatchAll it returns r.
C10_FindNodeFirstInPreOrder ==
  found # unset =>
    LET order == Node_dfs(tree, start)
        hits == {i \in 1..Len(order) : matches(matcher, tree, order[i])}
    IN /\ found.status = "None" <=> hits = {}
       /\ hits # {} =>
            LET first == order[CHOOSE i \in hits : \A j \in hits : i <= j]
            IN /\ found.status = "Some"
               /\ found.node = fresh(matcher, tree, first).node
               /\ found.env = fresh(matcher, tree, first).env
       /\ matcher = MatchAll => found.status = "Some" /\ found.node = start

FindNodeFirstInPreOrderUnlessPanic ==
  never_panics(matcher, tree) => C10_FindNodeFirstInPreOrder

(***************************************************************************)
(* Properties of single calls (SpecMatch).                                 *)
(***************************************************************************)
Called(method) == call # no_call /\ call.method = method

\* The concrete matcher under the wrappers of m.
RECURSIVE unwrap(_)
unwrap(m) == IF is_wrapper(m) THEN unwrap(m.inner) ELSE m

C6_PruningSound ==
  Called("match_node_with_env") =>
    LET pk == potential_kinds(matcher, stack_for(matcher))
    IN /\ (pk.status = "Some" /\ tree.kind[call.node] \notin pk.kinds)
            => call.res.status = "None"
       /\ matcher = MatchNone =>
            pk.status = "Some" /\ pk.kinds = {} /\ call.res.status = "None"
       /\ matcher = MatchAll =>
            pk.status = "None" /\ call.res.status = "Some" /\ call.res.node = call.node
       /\ is_wrapper(matcher) =>
            LET ipk == potential_kinds(matcher.inner, stack_for(matcher.inner))
                ires == match_node_with_env(matcher.inner, tree, call.node, call.env,
                                            stack_for(matcher.inner))
            IN /\ pk.status = ipk.status /\ pk.kinds = ipk.kinds
               /\ same_match(call.res, ires)

\* A boxed MatchNone, whose kind set excludes the node it was asked to match.
C6_Witness ==
  /\ Called("match_node_with_env")
  /\ matcher.tag = "Box" /\ unwrap(matcher) = MatchNone
  /\ potential_kinds(matcher, stack_for(matcher)).status = "Some"
  /\ tree.kind[call.node] \notin potential_kinds(matcher, stack_for(matcher)).kinds

\* The same call made on receiver m.
same_call_on(m) ==
  CASE call.method = "match_node_with_env" ->
         match_node_with_env(m, tree, call.node, call.env, stack_for(m))
    [] call.method = "potential_kinds" -> potential_kinds(m, stack_for(m))
    [] call.method = "get_match_len" -> get_match_len(m, tree, call.node, stack_for(m))
    [] call.method = "match_node" -> match_node(m, tree, call.node, stack_for(m))
    [] call.method = "find_node" -> find_node(m, tree, call.node, stack_for(m))

is_literal(src) ==
  /\ Len(src) = 1 /\ ~is_meta_var(src[1].kind)
  /\ \A i \in 1..Len(src[1].children) : ~is_meta_var(src[1].children[i])

\* Root::new(src, lang): the tree the parser makes of a literal snippet.
Root_new(src) ==
  [n |-> 1 + Len(src[1].children),
   parent |-> [i \in 1..(1 + Len(src[1].children)) |-> IF i = 1 THEN 0 ELSE 1],
   kind |-> [i \in 1..(1 + Len(src[1].children)) |->
               IF i = 1 THEN src[1].kind ELSE src[1].children[i - 1]]]

\* C7: &T and Box<dyn Matcher> return, for each of the five methods, what the
\* matcher they wrap returns (result and environment), and reach it in exactly
\* one delegation more than the wrapped matcher needs, never through themselves;
\* a boxed text pattern finds a match in the source it was written from.
C7_WrappersDelegate ==
  (call # no_call /\ is_wrapper(matcher)) =>
    /\ call.res.status # "overflow"
    /\ call.res = [same_call_on(matcher.inner) EXCEPT !.hops = @ + 1]
    /\ callee(matcher) = matcher.inner
    /\ (/\ matcher.tag = "Box" /\ matcher.inner.tag = "Ref"
        /\ matcher.inner.inner.tag = "Str"
        /\ is_literal(matcher.inner.inner.src)
        /\ tree = Root_new(matcher.inner.inner.src)
        /\ call.method = "find_node" /\ call.node = 1)
         => call.res.status = "Some"

\* test_box_match: Box::new("...").find_node(root) on the source of the pattern.
C7_Witness ==
  /\ Called("find_node") /\ call.node = 1
  /\ matcher.tag = "Box" /\ matcher.inner.tag = "Ref" /\ matcher.inner.inner.tag = "Str"
  /\ is_literal(matcher.inner.inner.src)
  /\ Len(matcher.inner.inner.src[1].children) = 2
  /\ tree = Root_new(matcher.inner.inner.src)
  /\ call.res.status = "Some" /\ call.res.hops = 2

\* C8: a match attempt (match_node_with_env, or get_match_len) has exactly two
\* outcomes for every matcher, a bare text value included: matched, or not
\* matched with the environment unchanged; no construction failure is produced
\* during the attempt.
C8_TwoOutcomes ==
  (Called("match_node_with_env") \/ Called("get_match_len")) =>
    /\ call.res.status \in {"Some", "None"}
    /\ (Called("match_node_with_env") /\ call.res.status = "None")
         => call.res.env = call.env

(***************************************************************************)
(* Properties of the error report (SpecErr).                               *)
(***************************************************************************)
has_header(o) == \E i \in 1..Len(o) : o[i].tag = "Caused by"

header_at(o) == CHOOSE i \in 1..Len(o) : o[i].tag = "Caused by"

\* The section is printed iff there is a cause after the root, and never lists
\* the root (the error at position 1 of the chain).
CausedByIffCauses ==
  /\ has_header(out) <=> Len(chain) > 1
  /\ \A i \in 1..Len(out) : out[i].err # 1

\* C9: the report prints 'Caused by' iff the chain has a cause after the root;
\* the root is never listed; the remaining causes are printed one per line in
\* chain order; for ReadConfiguration the report has 3 lines without a further
\* cause and 6 lines with exactly one.
C9_CausedBySection ==
  out # unset =>
    /\ CausedByIffCauses
    /\ has_header(out) =>
         /\ Len(out) = header_at(out) + Len(chain) - 1
         /\ \A k \in 1..(Len(chain) - 1) :
              out[header_at(out) + k].tag = "cause" /\ out[header_at(out) + k].err = k + 1
    /\ ctx = "ReadConfiguration" =>
         /\ Len(chain) = 1 => Len(out) = 3
         /\ Len(chain) = 2 => Len(out) = 6

\* The lines written for the causes, with the continuation lines left out.
cause_lines(o) == SelectSeq(o, LAMBDA l : l.tag = "cause")

RECURSIVE total_lines(_, _)
total_lines(c, i) == IF i > Len(c) THEN 0 ELSE Len(c[i]) + total_lines(c, i + 1)

\* C9 as amended: each cause starts on a line of its own, in chain order, and
\* takes as many lines as its message has; for ReadConfiguration the report has
\* 3 lines without a further cause and, with exactly one, 5 plus the lines of
\* that cause's message (6 for a message of one line).
C9_CausedBySectionAmended ==
  out # unset =>
    /\ CausedByIffCauses
    /\ has_header(out) =>
         /\ Len(out) = header_at(out) + total_lines(chain, 2)
         /\ \A i \in 1..Len(out) : out[i].tag \in {"cause", "continued"} => i > header_at(out)
         /\ Len(cause_lines(out)) = Len(chain) - 1
         /\ \A k \in 1..(Len(chain) - 1) :
              cause_lines(out)[k].err = k + 1 /\ cause_lines(out)[k].text = chain[k + 1][1]
    /\ ctx = "ReadConfiguration" =>
         /\ Len(chain) = 1 => Len(out) = 3
         /\ Len(chain) = 2 => Len(out) = 5 + Len(chain[2])

\* test_display_error: ReadConfiguration wrapping one single-line error.
C9_Witness ==
  /\ out # unset /\ ctx = "ReadConfiguration"
  /\ Len(chain) = 2 /\ chain[2] = <<"test error">>
  /\ Len(out) = 6 /\ has_header(out)

====
